---- MODULE Spec2Model ----
(***************************************************************************)
(* minst: onset segmentation (minst/signal.py, minst/segment.py) and clip  *)
(* extraction (minst/signal.py extract_clip) as state machines.            *)
(*                                                                         *)
(* Times are counted in ticks of 1/TimeDen second, sample rates in samples *)
(* per second, so that sr * t is the rational (sr * t) / TimeDen samples.  *)
(* Log-envelope values are integers (dB), one per envelope slot; one       *)
(* second of envelope is WinLen slots.                                     *)
(***************************************************************************)
EXTENDS Integers, Sequences, FiniteSets, TLC

\* ------------------------------------------------------------------ bounds
TimeDen == 4      \* ticks per second
MaxStart == 1     \* largest start_time, in ticks
MaxSpan == 3      \* largest end_time - start_time, in ticks
MaxDur == 4       \* largest duration, in ticks
MaxSr == 3        \* largest sample rate
MaxEnvLen == 3    \* largest envelope length, in slots
MaxEnvVal == 2    \* largest envelope value
MaxThresh == 1    \* largest db_delta_thresh
MaxSlot == 3      \* largest peak candidate, in slots
WinLen == 2       \* int(fs): slots in the one-second window
FrameStep == 60   \* novelty frames per envelope slot
WaitShort == 10   \* a small wait keyword argument, in frames
WaitLong == 130   \* a large wait keyword argument, in frames

\* ------------------------------------------------------- program constants
HllWait == 100        \* hll_onsets(..., wait=100)
LogcqtWait == 50      \* logcqt_onsets(..., wait=50)
EnvelopeWait == 100   \* envelope_onsets(..., wait=100)

VARIABLES
    \* ---- extract_clip
    pc,               \* position in extract_clip
    start_time, end_time, duration, sr,   \* arguments (duration = <<>> is None)
    real_duration,    \* signal.py:160
    fs_,              \* the file system: path -> file
    success,          \* signal.py:165
    noise_file, tmp_output_file,          \* signal.py:170-171 (path or "")
    num_samples,      \* signal.py:176
    result,           \* the returned value, once pc = "done"
    outBefore,        \* output_file as it was when the call began
    stepFailed,       \* some collaborator step of this call has failed
    tempCreates,      \* whether claudio.util.temp_file creates the file it names
    \* ---- segment
    spc,              \* position in segment
    impl,             \* "signal" (signal.py) or "legacy" (segment.py)
    mode, kwargs, db_delta_thresh,        \* arguments
    env,              \* log envelope of the audio file
    peaks,            \* novelty peaks of the audio file, in slots
    loaded,           \* claudio.read has run
    stratArgs,        \* the tuning the strategy ran with
    onset_times,      \* what the strategy returned
    recs,             \* the records of the returned table
    error             \* the exception raised, "" if none

clipVars == <<pc, start_time, end_time, duration, sr, real_duration, fs_, success,
              noise_file, tmp_output_file, num_samples, result, outBefore,
              stepFailed, tempCreates>>
segVars == <<spc, impl, mode, kwargs, db_delta_thresh, env, peaks, loaded,
             stratArgs, onset_times, recs, error>>
vars == <<clipVars, segVars>>

\* =================================================================
\* extract_clip  (src/minst/signal.py:151-196)
\* =================================================================

\* A file is [kind, n]: n samples; kind says how it came to be.
Absent == [kind |-> "absent", n |-> 0]
OldFile == [kind |-> "old", n |-> 0]
EmptyFile == [kind |-> "empty", n |-> 0]

\* os.path.exists(path); os.path.exists('') is False
Exists(f, path) == path \in DOMAIN f /\ f[path].kind # "absent"

\* int(x + 0.5) for the rational x = num / TimeDen >= 0
RoundHalfUp(num) == (2 * num + TimeDen) \div (2 * TimeDen)

HasDuration == duration # <<>>

\* signal.py:161-163, the end of the trim window
TrimEndGrow(st, et, dur) == IF dur # <<>> THEN st + dur[1] ELSE et
TrimEnd(st, et, dur) ==
    IF dur # <<>> /\ (et - st) >= dur[1] THEN st + dur[1] ELSE et

\* signal.py:172
NeedsPad(rd, dur) == dur # <<>> /\ rd < dur[1]

\* signal.py:176
NumSamplesTrunc(rate, dur, rd) == (rate * (dur[1] - rd)) \div TimeDen
NumSamples(rate, dur, rd) == RoundHalfUp(rate * (dur[1] - rd))

\* claudio.sox.trim runs `sox in out trim start (end - start)`; sox turns the
\* length into round(sr * length) samples
TrimSamples(rate, st, et) == RoundHalfUp(rate * (et - st))

\* signal.py:194-196
ReturnValueNoOutput(f, nf, tf) == ~Exists(f, nf) /\ ~Exists(f, tf)
ReturnValue(f, nf, tf) ==
    Exists(f, "out") /\ ~Exists(f, nf) /\ ~Exists(f, tf)

ClipInit ==
    /\ pc = "trim"
    /\ start_time \in 0..MaxStart
    /\ \E span \in 1..MaxSpan : end_time = start_time + span
    /\ duration \in {<<>>} \cup {<<d>> : d \in 1..MaxDur}
    /\ sr \in 1..MaxSr
    /\ real_duration = end_time - start_time
    /\ outBefore \in {Absent, OldFile}
    /\ fs_ = [p \in {"out", "noise", "tmp"} |-> IF p = "out" THEN outBefore ELSE Absent]
    /\ success = FALSE
    /\ noise_file = ""
    /\ tmp_output_file = ""
    /\ num_samples = 0
    /\ result = FALSE
    /\ stepFailed = FALSE
    /\ tempCreates \in BOOLEAN

\* signal.py:160-171
Trim ==
    /\ UNCHANGED segVars
    /\ pc = "trim"
    /\ \E ok \in BOOLEAN :
        /\ success' = ok
        /\ stepFailed' = ~ok
        /\ end_time' = TrimEnd(start_time, end_time, duration)
        /\ fs_' = IF ok
                  THEN [fs_ EXCEPT !["out"] =
                          [kind |-> "trimmed",
                           n |-> TrimSamples(sr, start_time, end_time')]]
                  ELSE fs_
    /\ pc' = IF NeedsPad(real_duration, duration) THEN "noise" ELSE "rm_noise"
    /\ UNCHANGED <<start_time, duration, sr, real_duration, noise_file,
                   tmp_output_file, num_samples, result, outBefore, tempCreates>>

\* signal.py:174-181
MakeNoise ==
    /\ UNCHANGED segVars
    /\ pc = "noise"
    /\ num_samples' = NumSamples(sr, duration, real_duration)
    /\ noise_file' = "noise"
    /\ tmp_output_file' = "tmp"
    /\ fs_' = IF tempCreates
              THEN [fs_ EXCEPT !["noise"] = EmptyFile, !["tmp"] = EmptyFile]
              ELSE fs_
    /\ pc' = "write"
    /\ UNCHANGED <<start_time, end_time, duration, sr, real_duration, success,
                   result, outBefore, stepFailed, tempCreates>>

\* signal.py:184; claudio.write raises when it cannot write
WriteNoise ==
    /\ UNCHANGED segVars
    /\ pc = "write"
    /\ \E ok \in BOOLEAN :
        IF ok
        THEN /\ fs_' = [fs_ EXCEPT ![noise_file] = [kind |-> "noise", n |-> num_samples]]
             /\ pc' = "concat"
             /\ UNCHANGED stepFailed
        ELSE /\ pc' = "raised"
             /\ stepFailed' = TRUE
             /\ UNCHANGED fs_
    /\ UNCHANGED <<start_time, end_time, duration, sr, real_duration, success,
                   noise_file, tmp_output_file, num_samples, result, outBefore,
                   tempCreates>>

\* what sox writes for [output_file, noise_file]
Concatenated(f, nf) ==
    [kind |-> IF f["out"].kind = "trimmed" THEN "padded" ELSE "oldpadded",
     n |-> f["out"].n + f[nf].n]

\* signal.py:185; the boolean claudio.sox.concatenate returns is dropped
Concatenate ==
    /\ UNCHANGED segVars
    /\ pc = "concat"
    /\ \E ok \in BOOLEAN :
        IF ok /\ Exists(fs_, "out") /\ Exists(fs_, noise_file)
        THEN /\ fs_' = [fs_ EXCEPT ![tmp_output_file] = Concatenated(fs_, noise_file)]
             /\ UNCHANGED stepFailed
        ELSE /\ stepFailed' = TRUE
             /\ UNCHANGED fs_
    /\ pc' = "rename"
    /\ UNCHANGED <<start_time, end_time, duration, sr, real_duration, success,
                   noise_file, tmp_output_file, num_samples, result, outBefore,
                   tempCreates>>

\* signal.py:186; os.rename raises OSError when it fails
Rename ==
    /\ UNCHANGED segVars
    /\ pc = "rename"
    /\ \E ok \in BOOLEAN :
        IF ok /\ Exists(fs_, tmp_output_file)
        THEN /\ fs_' = [fs_ EXCEPT !["out"] = fs_[tmp_output_file],
                                   ![tmp_output_file] = Absent]
             /\ pc' = "rm_noise"
             /\ UNCHANGED stepFailed
        ELSE /\ pc' = "raised"
             /\ stepFailed' = TRUE
             /\ UNCHANGED fs_
    /\ UNCHANGED <<start_time, end_time, duration, sr, real_duration, success,
                   noise_file, tmp_output_file, num_samples, result, outBefore,
                   tempCreates>>

\* signal.py:188-189
RemoveNoise ==
    /\ UNCHANGED segVars
    /\ pc = "rm_noise"
    /\ fs_' = IF Exists(fs_, noise_file)
              THEN [fs_ EXCEPT ![noise_file] = Absent]
              ELSE fs_
    /\ pc' = "rm_tmp"
    /\ UNCHANGED <<start_time, end_time, duration, sr, real_duration, success,
                   noise_file, tmp_output_file, num_samples, result, outBefore,
                   stepFailed, tempCreates>>

\* signal.py:191-192: removes noise_file, not tmp_output_file; os.remove of a
\* file that does not exist raises OSError
RemoveTmp ==
    /\ UNCHANGED segVars
    /\ pc = "rm_tmp"
    /\ IF Exists(fs_, tmp_output_file)
       THEN IF Exists(fs_, noise_file)
            THEN /\ fs_' = [fs_ EXCEPT ![noise_file] = Absent]
                 /\ pc' = "return"
                 /\ UNCHANGED stepFailed
            ELSE /\ pc' = "raised"
                 /\ stepFailed' = TRUE
                 /\ UNCHANGED fs_
       ELSE /\ pc' = "return"
            /\ UNCHANGED <<fs_, stepFailed>>
    /\ UNCHANGED <<start_time, end_time, duration, sr, real_duration, success,
                   noise_file, tmp_output_file, num_samples, result, outBefore,
                   tempCreates>>

\* signal.py:194-196
Return ==
    /\ UNCHANGED segVars
    /\ pc = "return"
    /\ result' = ReturnValue(fs_, noise_file, tmp_output_file)
    /\ pc' = "done"
    /\ UNCHANGED <<start_time, end_time, duration, sr, real_duration, fs_, success,
                   noise_file, tmp_output_file, num_samples, outBefore, stepFailed,
                   tempCreates>>

ClipIdle ==
    /\ pc = "idle"
    /\ start_time = 0 /\ end_time = 0 /\ duration = <<>> /\ sr = 0
    /\ real_duration = 0
    /\ outBefore = Absent
    /\ fs_ = [p \in {"out", "noise", "tmp"} |-> Absent]
    /\ success = FALSE
    /\ noise_file = "" /\ tmp_output_file = ""
    /\ num_samples = 0
    /\ result = FALSE
    /\ stepFailed = FALSE
    /\ tempCreates = FALSE

\* =================================================================
\* segment  (src/minst/signal.py:127-148, src/minst/segment.py:111-153)
\* =================================================================

\* signal.py:113-117, segment.py:104-108
ONSETS == {"hll", "logcqt", "envelope"}

\* the wait each strategy declares (segment.py's envelope_onsets declares none
\* and passes wait=100 to peak_pick itself)
DefaultWait(m) ==
    IF m = "hll" THEN HllWait
    ELSE IF m = "logcqt" THEN LogcqtWait
    ELSE EnvelopeWait

\* signal.py:130-133, segment.py:114-117: the keyword arguments the strategy
\* is called with (<<>> is none, <<w>> is wait=w)
StrategyArgsPassAll(m, kw) == kw
StrategyArgs(m, kw) == IF m = "hll" THEN <<>> ELSE kw

\* the wait the strategy runs with
EffectiveWait(m, args) == IF args # <<>> THEN args[1] ELSE DefaultWait(m)

\* segment.py:72: envelope_onsets(x, fs) accepts no keyword argument
Accepts(im, m, args) == ~(im = "legacy" /\ m = "envelope" /\ args # <<>>)

\* librosa's peak picking: of the candidate peaks, in increasing order, keep
\* the first and every one more than `wait` frames after the last one kept
RECURSIVE PickFrom(_, _, _, _)
PickFrom(cands, slot, wait, picked) ==
    IF slot > MaxSlot THEN picked
    ELSE IF slot \in cands
            /\ (picked = <<>> \/ slot * FrameStep > picked[Len(picked)] + wait)
         THEN PickFrom(cands, slot + 1, wait, Append(picked, slot * FrameStep))
         ELSE PickFrom(cands, slot + 1, wait, picked)

\* signal.py:26-30, 76-78, 107-110: onset times (in frames) of the audio
PeakPick(cands, wait) == PickFrom(cands, 0, wait, <<>>)

\* signal.py:135, librosa.time_to_samples: the envelope slot of an onset
SampleIndex(time) == time \div FrameStep

\* signal.py:140, segment.py:129: log_env_lpf[idx: idx + int(fs)]
Window(e, idx) ==
    SubSeq(e, idx + 1, IF idx + WinLen < Len(e) THEN idx + WinLen ELSE Len(e))

RECURSIVE SeqSum(_)
SeqSum(s) == IF s = <<>> THEN 0 ELSE Head(s) + SeqSum(Tail(s))

RECURSIVE SeqMax(_)
SeqMax(s) ==
    IF Len(s) = 1 THEN Head(s)
    ELSE LET m == SeqMax(Tail(s)) IN IF Head(s) > m THEN Head(s) ELSE m

RECURSIVE SeqMin(_)
SeqMin(s) ==
    IF Len(s) = 1 THEN Head(s)
    ELSE LET m == SeqMin(Tail(s)) IN IF Head(s) < m THEN Head(s) ELSE m

\* signal.py:141
KeepWindowFullOnly(x_m) == Len(x_m) = WinLen
KeepWindow(x_m) == Len(x_m) > 0

\* signal.py:145; env_delta and the threshold both in units of 1 / Len(e)
RetainAtLeast(env_delta, thresh, n) == env_delta >= thresh * n
Retain(env_delta, thresh, n) == env_delta > thresh * n

\* signal.py:142-144; env_mean is env_sum / env_len, env_delta is in units of
\* 1 / Len(e): x_m.max() - log_env_lpf.mean()
Rec(time, x_m, e) ==
    [time |-> time, env_max |-> SeqMax(x_m), env_sum |-> SeqSum(x_m),
     env_len |-> Len(x_m),
     env_delta |-> SeqMax(x_m) * Len(e) - SeqSum(e)]

\* segment.py:130-132: env_delta is x_m.max() - log_env_lpf.min()
LegacyRec(time, x_m, e) ==
    [time |-> time, env_max |-> SeqMax(x_m), env_sum |-> SeqSum(x_m),
     env_len |-> Len(x_m),
     env_delta |-> (SeqMax(x_m) - SeqMin(e)) * Len(e)]

\* signal.py:138-146
RECURSIVE Records(_, _, _)
Records(times, e, thresh) ==
    IF times = <<>> THEN <<>>
    ELSE LET time == Head(times)
             x_m == Window(e, SampleIndex(time))
             rest == Records(Tail(times), e, thresh)
         IN IF KeepWindow(x_m)
            THEN LET rec == Rec(time, x_m, e)
                 IN IF Retain(rec.env_delta, thresh, Len(e))
                    THEN <<rec>> \o rest
                    ELSE rest
            ELSE rest

\* segment.py:127-132
RECURSIVE LegacyRecords(_, _)
LegacyRecords(times, e) ==
    IF times = <<>> THEN <<>>
    ELSE <<LegacyRec(Head(times), Window(e, SampleIndex(Head(times))), e)>>
         \o LegacyRecords(Tail(times), e)

\* segment.py:130: x_m.max() of an empty window raises ValueError
LegacyRaises(times, e) ==
    \E i \in 1..Len(times) : Window(e, SampleIndex(times[i])) = <<>>

RECURSIVE SeqsUpTo(_)
SeqsUpTo(n) ==
    IF n = 0 THEN {<<>>}
    ELSE LET shorter == SeqsUpTo(n - 1)
         IN shorter \cup {Append(s, v) : s \in {t \in shorter : Len(t) = n - 1},
                                         v \in 0..MaxEnvVal}

SegInit ==
    /\ spc = "read"
    /\ impl \in {"signal", "legacy"}
    /\ mode \in ONSETS \cup {"other"}
    /\ kwargs \in {<<>>, <<WaitShort>>, <<WaitLong>>}
    /\ db_delta_thresh \in 0..MaxThresh
    /\ env \in SeqsUpTo(MaxEnvLen) \ {<<>>}
    /\ peaks \in SUBSET (0..MaxSlot)
    /\ loaded = FALSE
    /\ stratArgs = <<>>
    /\ onset_times = <<>>
    /\ recs = <<>>
    /\ error = ""

SegIdle ==
    /\ spc = "idle"
    /\ impl = "signal" /\ mode = "hll" /\ kwargs = <<>> /\ db_delta_thresh = 0
    /\ env = <<>> /\ peaks = {}
    /\ loaded = FALSE
    /\ stratArgs = <<>> /\ onset_times = <<>> /\ recs = <<>>
    /\ error = ""

\* signal.py:128, segment.py:112
ReadAudio ==
    /\ UNCHANGED clipVars
    /\ spc = "read"
    /\ loaded' = TRUE
    /\ spc' = "onsets"
    /\ UNCHANGED <<impl, mode, kwargs, db_delta_thresh, env, peaks, stratArgs,
                   onset_times, recs, error>>

\* signal.py:130-133, segment.py:114-117; ONSETS.get(mode) is None for a name
\* that is no key, and calling None raises TypeError
Onsets ==
    /\ UNCHANGED clipVars
    /\ spc = "onsets"
    /\ IF mode \notin ONSETS
       THEN /\ error' = "TypeError"
            /\ spc' = "raised"
            /\ UNCHANGED <<stratArgs, onset_times>>
       ELSE /\ stratArgs' = StrategyArgs(mode, kwargs)
            /\ IF Accepts(impl, mode, stratArgs')
               THEN /\ onset_times' = PeakPick(peaks, EffectiveWait(mode, stratArgs'))
                    /\ spc' = "records"
                    /\ UNCHANGED error
               ELSE /\ error' = "TypeError"
                    /\ spc' = "raised"
                    /\ UNCHANGED onset_times
    /\ UNCHANGED <<impl, mode, kwargs, db_delta_thresh, env, peaks, loaded, recs>>

\* signal.py:135-148
SegmentRecords ==
    /\ UNCHANGED clipVars
    /\ spc = "records"
    /\ impl = "signal"
    /\ recs' = Records(onset_times, env, db_delta_thresh)
    /\ spc' = "done"
    /\ UNCHANGED <<impl, mode, kwargs, db_delta_thresh, env, peaks, loaded,
                   stratArgs, onset_times, error>>

\* segment.py:119-153
LegacySegmentRecords ==
    /\ UNCHANGED clipVars
    /\ spc = "records"
    /\ impl = "legacy"
    /\ IF LegacyRaises(onset_times, env)
       THEN /\ error' = "ValueError"
            /\ spc' = "raised"
            /\ UNCHANGED recs
       ELSE /\ recs' = LegacyRecords(onset_times, env)
            /\ spc' = "done"
            /\ UNCHANGED error
    /\ UNCHANGED <<impl, mode, kwargs, db_delta_thresh, env, peaks, loaded,
                   stratArgs, onset_times>>

\* =================================================================
Init == (ClipInit /\ SegIdle) \/ (ClipIdle /\ SegInit)

Next ==
    \/ Trim
    \/ MakeNoise
    \/ WriteNoise
    \/ Concatenate
    \/ Rename
    \/ RemoveNoise
    \/ RemoveTmp
    \/ Return
    \/ ReadAudio
    \/ Onsets
    \/ SegmentRecords
    \/ LegacySegmentRecords

Spec == Init /\ [][Next]_vars

\* =================================================================
\* Properties of extract_clip
\* =================================================================
Finished == pc \in {"done", "raised"}
Padding == pc # "idle" /\ NeedsPad(real_duration, duration)
NoTempLeft == ~Exists(fs_, "noise") /\ ~Exists(fs_, "tmp")

\* C1: a call of extract_clip in which a step failed (trim, writing the noise
\* file, concatenate, rename) ends by returning false: it neither raises nor
\* returns true.
C1_FailureReturnsFalse ==
    (Finished /\ stepFailed) => (pc = "done" /\ result = FALSE)

\* C2: when extract_clip has ended, by returning or by a failing step, neither
\* the noise temporary file nor the temporary output file it created exists.
C2_NoTempFileAfterExit == Finished => NoTempLeft

\* C3: after a failed call on the padding path (duration longer than the
\* natural span), output_file does not hold the un-padded trimmed clip and no
\* temporary file is left.
C3_NoPartialOutputAfterFailure ==
    (Finished /\ stepFailed /\ Padding) =>
        (fs_["out"].kind # "trimmed" /\ NoTempLeft)

\* C4: on the padding path output_file is, in every intermediate state, either
\* as it was before the call or the complete clip of the requested duration,
\* never a shorter clip.
C4_OutputOnlyReplacedWhole ==
    Padding =>
        \/ fs_["out"] = outBefore
        \/ /\ fs_["out"].kind = "padded"
           /\ fs_["out"].n * TimeDen >= sr * duration[1] - TimeDen

\* C5: extract_clip returns true only if, when it returns, output_file exists
\* and neither the noise temporary file nor the temporary output file exists.
C5_TrueOnlyIfOutputAndNoTemp ==
    (pc = "done" /\ result = TRUE) =>
        /\ fs_["out"].kind # "absent"
        /\ (noise_file # "" => fs_[noise_file].kind = "absent")
        /\ (tmp_output_file # "" => fs_[tmp_output_file].kind = "absent")

\* C5 witness: a padding call that created both temporary files returned true.
C5_Witness ==
    /\ pc = "done" /\ result = TRUE
    /\ noise_file = "noise" /\ tmp_output_file = "tmp"
    /\ fs_["out"].kind = "padded"

\* C6: with a duration given and every collaborator step succeeding, the
\* samples in output_file are duration * sr within one sample: a natural span
\* of at least duration is trimmed to [start_time, start_time + duration), a
\* shorter one is trimmed whole and followed by exactly
\* int(sr * (duration - span) + 0.5) noise samples; the trim window is never
\* longer than the natural span.
C6_OutputHasDuration ==
    (pc = "done" /\ HasDuration /\ ~stepFailed) =>
        LET d == duration[1]
            n == fs_["out"].n
            diff == n * TimeDen - sr * d
            noise == (2 * sr * (d - real_duration) + TimeDen) \div (2 * TimeDen)
            span == (2 * sr * real_duration + TimeDen) \div (2 * TimeDen)
        IN /\ diff <= TimeDen /\ -diff <= TimeDen
           /\ end_time - start_time <= real_duration
           /\ real_duration >= d =>
                /\ end_time = start_time + d
                /\ fs_["out"].kind = "trimmed"
           /\ real_duration < d =>
                /\ end_time = start_time + real_duration
                /\ fs_["out"].kind = "padded"
                /\ num_samples = noise
                /\ n = span + noise

\* C6 witness: a padded clip whose sample count is not the exact product (the
\* roundings of the span and of the pad both took effect), and returned true.
C6_Witness ==
    /\ pc = "done" /\ HasDuration /\ ~stepFailed /\ result = TRUE
    /\ real_duration < duration[1]
    /\ fs_["out"].kind = "padded"
    /\ num_samples > 0
    /\ fs_["out"].n * TimeDen # sr * duration[1]

\* =================================================================
\* Properties of segment
\* =================================================================
RECURSIVE IsSubseq(_, _)
IsSubseq(a, b) ==
    IF a = <<>> THEN TRUE
    ELSE IF b = <<>> THEN FALSE
    ELSE IF Head(a) = Head(b) THEN IsSubseq(Tail(a), Tail(b))
    ELSE IsSubseq(a, Tail(b))

RecTimes == [i \in 1..Len(recs) |-> recs[i].time]
Returned(time) == \E i \in 1..Len(recs) : recs[i].time = time
SignalDone == spc = "done" /\ impl = "signal"

\* the envelope slots from idx to the end of the one-second window or of the
\* envelope, whichever comes first
SlotsAfter(idx) == {k \in 1..Len(env) : k > idx /\ k <= idx + WinLen}
\* env_delta of the onset at envelope slot idx, in units of 1 / Len(env)
DeltaAt(idx) ==
    LET top == CHOOSE k \in SlotsAfter(idx) : \A j \in SlotsAfter(idx) : env[j] <= env[k]
    IN env[top] * Len(env) - SeqSum(env)

C9_UnknownStrategyRejectedFirst ==
    (mode \notin ONSETS /\ spc = "raised") =>
        (error = "InvalidParameter" /\ ~loaded)

\* C10: with mode 'hll' the strategy keyword arguments are not passed on:
\* hll_onsets runs with its default tuning and the returned table is the one
\* of the defaults whatever the keyword arguments; with 'logcqt' and
\* 'envelope' the keyword arguments reach the strategy.
C10_HllIgnoresKwargs ==
    /\ (mode = "hll" /\ spc \in {"records", "done"}) =>
        /\ stratArgs = <<>>
        /\ onset_times = PickFrom(peaks, 0, HllWait, <<>>)
    /\ (mode = "hll" /\ SignalDone) =>
        recs = Records(PickFrom(peaks, 0, HllWait, <<>>), env, db_delta_thresh)
    /\ (mode \in {"logcqt", "envelope"} /\ spc \in {"records", "done", "raised"}) =>
        stratArgs = kwargs
    /\ (mode \in {"logcqt", "envelope"} /\ spc \in {"records", "done"}
            /\ kwargs # <<>>) =>
        onset_times = PickFrom(peaks, 0, kwargs[1], <<>>)

\* C10 witness: an 'hll' call returned the table of the default tuning although
\* the wait it was given would have picked other onsets.
C10_Witness ==
    /\ mode = "hll" /\ SignalDone
    /\ kwargs # <<>>
    /\ PickFrom(peaks, 0, kwargs[1], <<>>) # onset_times
    /\ recs # <<>>

====
